---- MODULE Spec2Model ----
(***************************************************************************)
(* A model of issue_downloader.py: the ingestion run of download_issues    *)
(* (parent listing with resume, limit and pull-request filter, the per     *)
(* issue comment fetch and the transactional save), of                     *)
(* save_issue_with_comments taken alone, of request_with_retry inside the  *)
(* listing loop, of main with parse_repo_string, and of RateLimiter.       *)
(*                                                                         *)
(* The remote server and the SQLite file are the environment: every page   *)
(* the server returns and every database the run is started on is drawn    *)
(* from the bounded sets below.                                            *)
(***************************************************************************)
EXTENDS Integers, Sequences, FiniteSets, TLC

(* ---------------------------------------------------------------- bounds *)

\* Issue numbers known to the remote and to the store are 1..MaxNumber.
MaxNumber == 2
\* A listing page carries at most MaxPageLen items.
MaxPageLen == 2
\* The server's chain of next cursors has at most MaxPages pages.
MaxPages == 2
\* --limit is one of 0..MaxLimit; 0 stands for "no limit" (None and 0 are
\* both falsy in the tests "if limit" of download_issues).
MaxLimit == 2
\* A comment list handed to save_issue_with_comments has at most MaxComments
\* entries; it is also the nonzero comment count an issue may declare.
MaxComments == 2
\* The argument repository has at most MaxRepoLen characters.
MaxRepoLen == 3
\* RateLimiter is constructed with requests_per_hour in 1..MaxRate.
MaxRate == 10
\* Time is counted in ticks of min_interval / TicksPerInterval.
TicksPerInterval == 2
\* Between two calls of wait_if_needed at most MaxGap ticks pass at once,
\* up to the time MaxTime.
MaxGap == 2
MaxTime == 4
\* wait_if_needed is called at most MaxCalls times on one limiter.
MaxCalls == 3

(* ------------------------------------------------------ program constants *)

MAX_RETRIES == 10
INITIAL_BACKOFF == 1
DEFAULT_RATE_LIMIT == 5000
\* RATE_LIMIT_USAGE_FRACTION = 0.9, as RateNum / RateDen
RateNum == 9
RateDen == 10
SecondsPerHour == 3600
\* fetch_comments is defined with two parameters ...
FetchCommentsParams == 2
\* ... and download_issues calls it with three positional arguments.
FetchCommentsArgs == 3

(* ------------------------------------------------------------------ data *)

Numbers == 1..MaxNumber
\* ids of issues; the remote gives issue n the id n, a database file may hold
\* any id for a number.
Ids == 1..MaxNumber
\* ids of comments
CommentIds == 1..MaxNumber
Limits == 0..MaxLimit

\* An item of the parent listing.  pull_request = TRUE stands for an item
\* that carries the "pull_request" key.
Items ==
    [number : Numbers, id : Ids, pull_request : BOOLEAN,
     comments : {0, MaxComments}]

\* Items as the remote serves them: issue n has id n.
RemoteItems == {it \in Items : it.id = it.number}

Comments == [id : CommentIds]

\* json.dumps(x, ensure_ascii=False): the serialised text of x.
Dumps(x) == <<"json", x>>

\* issue_data: the issue without its "comments_data" key.
IssueData(issue) ==
    [f \in (DOMAIN issue) \ {"comments_data"} |-> issue[f]]

(* ----------------------------------------------------------------- store *)

\* Rows of table issues (id INTEGER PRIMARY KEY, number INTEGER UNIQUE).
IssueRow(issue) ==
    [id |-> issue.id, number |-> issue.number,
     data |-> Dumps(IssueData(issue))]

\* Rows of table comments (id INTEGER PRIMARY KEY, issue_number).
CommentRow(comment, issue_number) ==
    [id |-> comment.id, issue_number |-> issue_number,
     data |-> Dumps(comment)]

\* INSERT OR REPLACE INTO issues: rows that conflict with the new row on the
\* primary key id or on the unique number are deleted, then the row is added.
InsertOrReplaceIssue(rows, row) ==
    {r \in rows : r.id # row.id /\ r.number # row.number} \cup {row}

\* Mutant of DeleteComments: the stored comments of the issue are kept.
DeleteComments_None(rows, issue_number) == rows

\* DELETE FROM comments WHERE issue_number = ?
DeleteComments(rows, issue_number) ==
    {r \in rows : r.issue_number # issue_number}

\* Whether INSERT INTO comments of a row with this id violates the primary key.
CommentIdTaken(rows, id) == \E r \in rows : r.id = id

\* SELECT number FROM issues
ExistingIssueNumbers(db) == {r.number : r \in db.issues}

\* SELECT COUNT(*) FROM issues
CountIssues(db) == Cardinality(db.issues)

\* A row a former run stored for issue n under id i, with one comment.
StoredIssueRow(n, i) ==
    IssueRow([number |-> n, id |-> i, pull_request |-> FALSE, comments |-> 1])

StoredCommentRow(n) == CommentRow([id |-> n], n)

\* The database files a run may be started on: the schema's keys hold (ids
\* and numbers are unique) and every comment belongs to a stored issue.
ValidIssueTables ==
    {t \in SUBSET {StoredIssueRow(n, i) : n \in Numbers, i \in Ids} :
        \A r1, r2 \in t :
            (r1.id = r2.id \/ r1.number = r2.number) => r1 = r2}

StartStores ==
    {[issues |-> t, comments |-> {StoredCommentRow(r.number) : r \in t}] :
        t \in ValidIssueTables}

EmptyStore == [issues |-> {}, comments |-> {}]

VARIABLES
    pc,          \* position of the program
    caller,      \* "download_issues" or "unit": who called save_issue_with_comments
    store,       \* the committed content of the database file
    conn,        \* the content as seen through the connection (uncommitted included)
    in_tx,       \* whether the connection is inside BEGIN ... COMMIT/ROLLBACK
    issue,       \* save_issue_with_comments: its argument issue
    comments,    \* save_issue_with_comments: its argument comments
    k,           \* save_issue_with_comments: comments inserted so far
    error,       \* the exception that is propagating ("none" when there is none)
    start_store, \* the committed content when the call (or the run) started
    fail_step,   \* where the transaction failed ("none" when it did not)
    limit,              \* download_issues: its argument limit (0: None)
    existing_issues,    \* download_issues: numbers found in the database at start
    seen_issue_numbers, \* download_issues: existing and accepted numbers
    issues_to_process,  \* download_issues: the accepted items, in order
    params,             \* download_issues: the query of the next listing request
    next_url,           \* download_issues: the URL of the next listing request
    page_no,            \* listing pages received so far
    page_left,          \* items of the current page the for loop has not reached
    has_next,           \* whether the current page's Link header has rel="next"
    i,                  \* download_issues: index of the processing loop
    result,             \* what download_issues returned (-1: nothing yet)
    served,             \* non-pull-request numbers the listing served so far
    pr_served,          \* whether the listing served a pull request so far
    ok_requests,        \* listing requests that succeeded so far
    fetch_calls,        \* numbers fetch_comments was called for
    save_calls,         \* numbers save_issue_with_comments was called for
    attempt,            \* request_with_retry: attempts that have failed
    backoff,            \* request_with_retry: the next backoff sleep
    last_exception,     \* request_with_retry: the last error caught
    sleeps,             \* request_with_retry: backoff sleeps of this call, in order
    gets,               \* request_with_retry: requests.get calls of this call
    waits,              \* request_with_retry: wait_if_needed calls of this call
    kinds,              \* request_with_retry: the kinds of error caught in this call
    queries,            \* request_with_retry: the URL and query of each request of this call
    tenth_error,        \* the error requests.get raised in round MAX_RETRIES of this call
    remote,             \* the listing pages of the remote, when they are fixed
    run,                \* 1 in the first run on the store, 2 in the second
    first_run,          \* how the first run ended, once a second one has started
    repo_string,        \* main: the argument repository, a sequence of characters
    parts,              \* main: what parse_repo_string returned (<<>>: nothing yet)
    db_opened,          \* whether this run has called init_database
    exit_code,          \* what main returned (-1: nothing yet)
    requests_per_hour,  \* RateLimiter: the argument of its constructor
    min_interval,       \* RateLimiter: min_interval, a fraction of seconds
    last_request_time,  \* RateLimiter: last_request_time (-1: None)
    now,                \* what time.time() returns, in ticks
    last_wait           \* the last call of wait_if_needed: its number, when it
                        \* began, last_request_time as it found it, its sleep

run_vars ==
    <<limit, existing_issues, seen_issue_numbers, issues_to_process, params, next_url,
      page_no, page_left, has_next, i, result, served, pr_served, ok_requests,
      fetch_calls, save_calls>>

retry_vars ==
    <<attempt, backoff, last_exception, sleeps, gets, waits, kinds, queries,
      tenth_error>>

env_vars == <<remote, run, first_run>>

main_vars == <<repo_string, parts, db_opened, exit_code>>

limiter_vars ==
    <<requests_per_hour, min_interval, last_request_time, now, last_wait>>

save_vars == <<caller, store, conn, in_tx, issue, comments, k, start_store, fail_step>>

(* ------------------------------------------- save_issue_with_comments *)

\* Where to go when save_issue_with_comments returns.
AfterSave == IF caller = "unit" THEN "returned" ELSE "process_next"

\* conn.execute("BEGIN")
SaveBegin ==
    /\ pc = "save_begin"
    /\ in_tx' = TRUE
    /\ k' = 0
    /\ pc' = "save_insert_issue"
    /\ UNCHANGED <<caller, store, conn, issue, comments, error, start_store, fail_step>>
    /\ UNCHANGED <<run_vars, retry_vars>>
    /\ UNCHANGED env_vars
    /\ UNCHANGED main_vars
    /\ UNCHANGED limiter_vars

\* INSERT OR REPLACE INTO issues (id, number, data) VALUES (?, ?, ?)
SaveInsertIssue ==
    /\ pc = "save_insert_issue"
    /\ conn' = [conn EXCEPT !.issues = InsertOrReplaceIssue(@, IssueRow(issue))]
    /\ pc' = "save_delete_comments"
    /\ UNCHANGED <<caller, store, in_tx, issue, comments, k, error, start_store, fail_step>>
    /\ UNCHANGED <<run_vars, retry_vars>>
    /\ UNCHANGED env_vars
    /\ UNCHANGED main_vars
    /\ UNCHANGED limiter_vars

\* DELETE FROM comments WHERE issue_number = ?
SaveDeleteComments ==
    /\ pc = "save_delete_comments"
    /\ conn' = [conn EXCEPT !.comments = DeleteComments(@, issue.number)]
    /\ pc' = IF Len(comments) = 0 THEN "save_commit" ELSE "save_insert_comment"
    /\ UNCHANGED <<caller, store, in_tx, issue, comments, k, error, start_store, fail_step>>
    /\ UNCHANGED <<run_vars, retry_vars>>
    /\ UNCHANGED env_vars
    /\ UNCHANGED main_vars
    /\ UNCHANGED limiter_vars

\* One round of "for comment in comments": INSERT INTO comments.  A taken id
\* violates the primary key: sqlite3.IntegrityError.
SaveInsertComment ==
    /\ pc = "save_insert_comment"
    /\ k < Len(comments)
    /\ IF CommentIdTaken(conn.comments, comments[k + 1].id)
       THEN /\ pc' = "save_except"
            /\ error' = "IntegrityError"
            /\ fail_step' = "save_insert_comment"
            /\ UNCHANGED <<conn, k>>
       ELSE /\ conn' = [conn EXCEPT !.comments =
                           @ \cup {CommentRow(comments[k + 1], issue.number)}]
            /\ k' = k + 1
            /\ pc' = IF k + 1 = Len(comments) THEN "save_commit"
                     ELSE "save_insert_comment"
            /\ UNCHANGED <<error, fail_step>>
    /\ UNCHANGED <<caller, store, in_tx, issue, comments, start_store>>
    /\ UNCHANGED <<run_vars, retry_vars>>
    /\ UNCHANGED env_vars
    /\ UNCHANGED main_vars
    /\ UNCHANGED limiter_vars

\* conn.execute("COMMIT")
SaveCommit ==
    /\ pc = "save_commit"
    /\ store' = conn
    /\ in_tx' = FALSE
    /\ pc' = AfterSave
    /\ UNCHANGED <<caller, conn, issue, comments, k, error, start_store, fail_step>>
    /\ UNCHANGED <<run_vars, retry_vars>>
    /\ UNCHANGED env_vars
    /\ UNCHANGED main_vars
    /\ UNCHANGED limiter_vars

\* A statement inside the try block fails for a reason of the environment
\* (disk full, database locked, ...): sqlite3.OperationalError.
SaveFault ==
    /\ pc \in {"save_insert_issue", "save_delete_comments",
               "save_insert_comment", "save_commit"}
    /\ fail_step' = pc
    /\ error' = "OperationalError"
    /\ pc' = "save_except"
    /\ UNCHANGED <<caller, store, conn, in_tx, issue, comments, k, start_store>>
    /\ UNCHANGED <<run_vars, retry_vars>>
    /\ UNCHANGED env_vars
    /\ UNCHANGED main_vars
    /\ UNCHANGED limiter_vars

\* Mutant of RolledBack: the except clause leaves the transaction's writes.
RolledBack_Kept(committed, working) == working

\* What ROLLBACK leaves in the connection.
RolledBack(committed, working) == committed

\* except Exception: conn.execute("ROLLBACK"); raise
SaveRollback ==
    /\ pc = "save_except"
    /\ conn' = RolledBack(store, conn)
    /\ in_tx' = FALSE
    /\ pc' = "raised"
    /\ UNCHANGED <<caller, store, issue, comments, k, error, start_store, fail_step>>
    /\ UNCHANGED <<run_vars, retry_vars>>
    /\ UNCHANGED env_vars
    /\ UNCHANGED main_vars
    /\ UNCHANGED limiter_vars

Save ==
    \/ SaveBegin
    \/ SaveInsertIssue
    \/ SaveDeleteComments
    \/ SaveInsertComment
    \/ SaveCommit
    \/ SaveFault
    \/ SaveRollback

(* ---------------------- save_issue_with_comments called on its own *)

\* The variables of request_with_retry when a call starts.
RetryAtRest ==
    /\ attempt = 0
    /\ backoff = INITIAL_BACKOFF
    /\ last_exception = "none"
    /\ sleeps = <<>>
    /\ gets = 0
    /\ waits = 0
    /\ kinds = {}
    /\ queries = {}
    /\ tenth_error = "none"

\* 3600.0 / effective_limit, as the fraction num / den.
NoInterval == [num |-> 0, den |-> 1]

NoWait == [n |-> 0, at |-> 0, prev |-> -1, slept |-> 0]

\* The variables of the rate limiter, before it is constructed.
LimiterAtRest ==
    /\ requests_per_hour = DEFAULT_RATE_LIMIT
    /\ min_interval = NoInterval
    /\ last_request_time = -1
    /\ now = 0
    /\ last_wait = NoWait

\* The variables of main, when download_issues is called with its arguments
\* given.
MainAtRest ==
    /\ repo_string = <<>>
    /\ parts = <<>>
    /\ db_opened = FALSE
    /\ exit_code = -1

NoRun == [end |-> "none", result |-> -1, start |-> EmptyStore]

\* The variables of download_issues, at rest.
RunAtRest ==
    /\ RetryAtRest
    /\ remote = <<>>
    /\ run = 1
    /\ first_run = NoRun
    /\ MainAtRest
    /\ LimiterAtRest
    /\ limit = 0
    /\ existing_issues = {}
    /\ seen_issue_numbers = {}
    /\ issues_to_process = <<>>
    /\ params = "initial"
    /\ next_url = "none"
    /\ page_no = 0
    /\ page_left = 0
    /\ has_next = FALSE
    /\ i = 0
    /\ result = -1
    /\ served = {}
    /\ pr_served = FALSE
    /\ ok_requests = 0
    /\ fetch_calls = {}
    /\ save_calls = {}

CommentLists ==
    UNION {[1..n -> Comments] : n \in 0..MaxComments}

InitSave ==
    /\ RunAtRest
    /\ pc = "save_begin"
    /\ caller = "unit"
    /\ store \in StartStores
    /\ conn = store
    /\ start_store = store
    /\ in_tx = FALSE
    /\ issue \in {it \in Items : ~it.pull_request}
    /\ comments \in CommentLists
    /\ k = 0
    /\ error = "none"
    /\ fail_step = "none"

vars ==
    <<pc, save_vars, error, run_vars, retry_vars, env_vars, main_vars,
      limiter_vars>>

SpecSave == InitSave /\ [][Save]_vars

(* ------------------------------------------------------- download_issues *)

\* requests.exceptions.HTTPError and the other requests.exceptions.RequestException
TransportErrors == {"HTTPError", "RequestException"}

NoIssue == [number |-> 0, id |-> 0, pull_request |-> FALSE, comments |-> 0]

\* Mutant of SeenAtStart: the resume set is not consulted.
SeenAtStart_Empty(existing) == {}

\* seen_issue_numbers: set[int] = set(existing_issues)
SeenAtStart(existing) == existing

\* Mutant of LimitReached: the comparison is strict.
LimitReached_Strict(lim, seen) == lim # 0 /\ Cardinality(seen) > lim

\* limit and len(seen_issue_numbers) >= limit
LimitReached(lim, seen) == lim # 0 /\ Cardinality(seen) >= lim

\* Mutant of IsNew: a number already seen is accepted again.
IsNew_Always(item, seen) == TRUE

\* if issue_number not in seen_issue_numbers
IsNew(item, seen) == item.number \notin seen

\* Mutant of NotPullRequest: every item of the listing passes the filter.
NotPullRequest_Any(item) == TRUE

\* if "pull_request" not in item
NotPullRequest(item) == ~item.pull_request

\* issue.get("comments", 0) > 0
DeclaresComments(it) == it.comments > 0

\* The call fetch_comments(comments_url, headers, rate_limiter) binds its
\* arguments only if their count is the count of the parameters.
FetchCommentsCallBinds == FetchCommentsArgs = FetchCommentsParams

InitRun ==
    /\ pc = "start"
    /\ caller = "download_issues"
    /\ store \in StartStores
    /\ conn = store
    /\ start_store = store
    /\ in_tx = FALSE
    /\ issue = NoIssue
    /\ comments = <<>>
    /\ k = 0
    /\ error = "none"
    /\ fail_step = "none"
    /\ limit \in Limits
    /\ existing_issues = {}
    /\ seen_issue_numbers = {}
    /\ issues_to_process = <<>>
    /\ params = "initial"
    /\ next_url = "none"
    /\ page_no = 0
    /\ page_left = 0
    /\ has_next = FALSE
    /\ i = 0
    /\ result = -1
    /\ served = {}
    /\ pr_served = FALSE
    /\ ok_requests = 0
    /\ fetch_calls = {}
    /\ save_calls = {}
    /\ RetryAtRest
    /\ remote = <<>>
    /\ run = 1
    /\ first_run = NoRun
    /\ MainAtRest
    /\ LimiterAtRest

\* conn = init_database(db_path); existing_issues = get_existing_issue_numbers(conn)
\* and the initialisation of the listing loop.
Start ==
    /\ pc = "start"
    /\ existing_issues' = ExistingIssueNumbers(conn)
    /\ seen_issue_numbers' = SeenAtStart(ExistingIssueNumbers(conn))
    /\ issues_to_process' = <<>>
    /\ params' = "initial"
    /\ next_url' = "issues_url"
    /\ pc' = "list_request"
    /\ UNCHANGED <<save_vars, error, limit, page_no, page_left, has_next, i,
                   result, served, pr_served, ok_requests, fetch_calls, save_calls>>
    /\ UNCHANGED retry_vars
    /\ UNCHANGED env_vars
    /\ db_opened' = TRUE
    /\ UNCHANGED <<repo_string, parts, exit_code>>
    /\ UNCHANGED limiter_vars

\* The locals of a call of request_with_retry that has returned are dropped:
\* the next call starts with last_exception = None, backoff = INITIAL_BACKOFF.
RetryLocalsFresh ==
    /\ attempt' = 0
    /\ backoff' = INITIAL_BACKOFF
    /\ last_exception' = "none"
    /\ sleeps' = <<>>
    /\ gets' = 0
    /\ waits' = 0
    /\ kinds' = {}
    /\ queries' = {}
    /\ tenth_error' = "none"

\* Mutant of NextBackoff: the backoff grows by one second.
NextBackoff_Linear(b) == b + 1

\* backoff *= 2
NextBackoff(b) == b * 2

\* if attempt < MAX_RETRIES - 1: the attempt that failed is not the last one.
SleepsAfter(n) == n < MAX_RETRIES - 1

\* Mutant of HasAttemptLeft: the loop has one round more.
HasAttemptLeft_OneMore(n) == n < MAX_RETRIES + 1

\* for attempt in range(MAX_RETRIES): whether the loop has a round left.
HasAttemptLeft(n) == n < MAX_RETRIES

\* Mutant of LimiterGiven: request_with_retry is called without rate limiter.
LimiterGiven_None == FALSE

\* if rate_limiter: download_issues passes rate_limiter=rate_limiter, a
\* RateLimiter object, which is truthy.
LimiterGiven == TRUE

\* The head of a round of "for attempt in range(MAX_RETRIES)" and, inside
\* the try block, rate_limiter.wait_if_needed().
RetryWait ==
    /\ pc = "list_request"
    /\ HasAttemptLeft(attempt)
    /\ waits' = IF LimiterGiven THEN waits + 1 ELSE waits
    /\ pc' = "list_get"
    /\ UNCHANGED <<save_vars, error, run_vars, attempt, backoff, last_exception,
                   sleeps, gets, kinds, queries, tenth_error>>
    /\ UNCHANGED env_vars
    /\ UNCHANGED main_vars
    /\ UNCHANGED limiter_vars

\* One round of request_with_retry in which requests.get succeeds and
\* raise_for_status passes: return response.
RetryAttemptReturns ==
    /\ pc = "list_get"
    /\ gets' = gets + 1
    /\ queries' = queries \cup {<<next_url, params>>}
    /\ ok_requests' = ok_requests + 1
    /\ pc' = "list_response"
    /\ UNCHANGED <<save_vars, error, limit, existing_issues, seen_issue_numbers,
                   issues_to_process, params, next_url, page_no, page_left, has_next, i,
                   result, served, pr_served, fetch_calls, save_calls, waits, attempt, backoff,
                   last_exception, sleeps, kinds, tenth_error>>
    /\ UNCHANGED env_vars
    /\ UNCHANGED main_vars
    /\ UNCHANGED limiter_vars

\* One round in which requests.get or raise_for_status raises an error of
\* this kind: it is kept, and all rounds but the last one sleep and double
\* the backoff.
RetryAttemptFails(kind) ==
    /\ pc = "list_get"
    /\ pc' = "list_request"
    /\ UNCHANGED waits
    /\ gets' = gets + 1
    /\ queries' = queries \cup {<<next_url, params>>}
    /\ last_exception' = kind
    /\ kinds' = kinds \cup {kind}
    /\ tenth_error' = IF attempt + 1 = MAX_RETRIES THEN kind ELSE tenth_error
    /\ IF SleepsAfter(attempt)
       THEN /\ sleeps' = Append(sleeps, backoff)
            /\ backoff' = NextBackoff(backoff)
       ELSE UNCHANGED <<sleeps, backoff>>
    /\ attempt' = attempt + 1
    /\ UNCHANGED <<save_vars, error, run_vars>>
    /\ UNCHANGED env_vars
    /\ UNCHANGED main_vars
    /\ UNCHANGED limiter_vars

\* All retries exhausted: raise last_exception
RetryExhausted ==
    /\ pc = "list_request"
    /\ ~HasAttemptLeft(attempt)
    /\ error' = last_exception
    /\ pc' = "raised"
    /\ UNCHANGED <<save_vars, run_vars, retry_vars>>
    /\ UNCHANGED env_vars
    /\ UNCHANGED main_vars
    /\ UNCHANGED limiter_vars

\* data = response.json(); if not data: break.  The response is a page of len
\* items whose Link header has rel="next" or not.
ListResponse(len, next) ==
    /\ pc = "list_response"
    /\ next => page_no + 1 < MaxPages
    /\ page_no' = page_no + 1
    /\ page_left' = len
    /\ has_next' = next
    /\ pc' = IF len = 0 THEN "process" ELSE "list_items"
    /\ UNCHANGED <<save_vars, error, limit, existing_issues, seen_issue_numbers,
                   issues_to_process, params, next_url, i, result, served,
                   pr_served, ok_requests,
                   fetch_calls, save_calls>>
    /\ RetryLocalsFresh
    /\ UNCHANGED env_vars
    /\ UNCHANGED main_vars
    /\ UNCHANGED limiter_vars

\* Mutant of ListItem: an accepted issue is saved, without comments, in the
\* round of the listing that accepts it.
ListItem_SavesAtOnce(item) ==
    /\ pc = "list_items"
    /\ page_left > 0
    /\ LET accept == NotPullRequest(item) /\ IsNew(item, seen_issue_numbers)
           seen == IF accept THEN seen_issue_numbers \cup {item.number}
                   ELSE seen_issue_numbers
           break == NotPullRequest(item) /\ LimitReached(limit, seen)
           saved == [conn EXCEPT
                        !.issues = InsertOrReplaceIssue(@, IssueRow(item)),
                        !.comments = DeleteComments(@, item.number)]
       IN /\ seen_issue_numbers' = seen
          /\ issues_to_process' = issues_to_process
          /\ conn' = IF accept THEN saved ELSE conn
          /\ store' = IF accept THEN saved ELSE store
          /\ save_calls' = IF accept THEN save_calls \cup {item.number}
                           ELSE save_calls
          /\ page_left' = page_left - 1
          /\ pc' = IF break \/ page_left = 1 THEN "page_end" ELSE "list_items"
    /\ served' = IF NotPullRequest(item) THEN served \cup {item.number} ELSE served
    /\ pr_served' = (pr_served \/ ~NotPullRequest(item))
    /\ UNCHANGED <<caller, in_tx, issue, comments, k, start_store, fail_step>>
    /\ UNCHANGED <<error, limit, existing_issues, params, next_url, page_no,
                   has_next, i, result, ok_requests, fetch_calls>>
    /\ UNCHANGED retry_vars
    /\ UNCHANGED env_vars
    /\ UNCHANGED main_vars
    /\ UNCHANGED limiter_vars

\* One round of "for item in data", with the break at the limit.
ListItem(item) ==
    /\ pc = "list_items"
    /\ page_left > 0
    /\ LET accept == NotPullRequest(item) /\ IsNew(item, seen_issue_numbers)
           seen == IF accept THEN seen_issue_numbers \cup {item.number}
                   ELSE seen_issue_numbers
           break == NotPullRequest(item) /\ LimitReached(limit, seen)
       IN /\ seen_issue_numbers' = seen
          /\ issues_to_process' = IF accept THEN Append(issues_to_process, item)
                                  ELSE issues_to_process
          /\ page_left' = page_left - 1
          /\ pc' = IF break \/ page_left = 1 THEN "page_end" ELSE "list_items"
    /\ served' = IF NotPullRequest(item) THEN served \cup {item.number} ELSE served
    /\ pr_served' = (pr_served \/ ~NotPullRequest(item))
    /\ UNCHANGED <<save_vars, error, limit, existing_issues, params, next_url, page_no,
                   has_next, i, result, ok_requests, fetch_calls, save_calls>>
    /\ UNCHANGED retry_vars
    /\ UNCHANGED env_vars
    /\ UNCHANGED main_vars
    /\ UNCHANGED limiter_vars

\* Mutant of ClearedParams: the query of the first request is kept.
ClearedParams_Kept == "initial"

\* params = {}
ClearedParams == "empty"

\* After the for loop: the break at the limit, else next_url = links.get("next")
\* and params = {}.
PageEnd ==
    /\ pc = "page_end"
    /\ IF LimitReached(limit, seen_issue_numbers)
       THEN /\ pc' = "process"
            /\ UNCHANGED <<params, next_url>>
       ELSE /\ next_url' = IF has_next THEN "next" ELSE "none"
            /\ params' = ClearedParams
            /\ pc' = IF has_next THEN "list_request" ELSE "process"
    /\ UNCHANGED <<save_vars, error, limit, existing_issues, seen_issue_numbers,
                   issues_to_process, page_no, page_left, has_next, i, result,
                   served, pr_served, ok_requests, fetch_calls, save_calls>>
    /\ UNCHANGED retry_vars
    /\ UNCHANGED env_vars
    /\ UNCHANGED main_vars
    /\ UNCHANGED limiter_vars

\* One round of "for i, issue in enumerate(issues_to_process)" for an issue
\* that declares comments: the call of fetch_comments.  With three arguments
\* for two parameters the call raises TypeError; were it to bind, the body
\* would read the name rate_limiter, which the module never defines.
ProcessFetchComments ==
    /\ pc = "process"
    /\ i < Len(issues_to_process)
    /\ DeclaresComments(issues_to_process[i + 1])
    /\ fetch_calls' = fetch_calls \cup {issues_to_process[i + 1].number}
    /\ error' = IF FetchCommentsCallBinds THEN "NameError" ELSE "TypeError"
    /\ pc' = "raised"
    /\ UNCHANGED <<save_vars, limit, existing_issues, seen_issue_numbers,
                   issues_to_process, params, next_url, page_no, page_left, has_next, i,
                   result, served, pr_served, ok_requests, save_calls>>
    /\ UNCHANGED retry_vars
    /\ UNCHANGED env_vars
    /\ UNCHANGED main_vars
    /\ UNCHANGED limiter_vars

\* The same round for an issue that declares none: comments = [] and the call
\* of save_issue_with_comments(conn, issue, comments).
ProcessSave ==
    /\ pc = "process"
    /\ i < Len(issues_to_process)
    /\ ~DeclaresComments(issues_to_process[i + 1])
    /\ issue' = issues_to_process[i + 1]
    /\ comments' = <<>>
    /\ save_calls' = save_calls \cup {issues_to_process[i + 1].number}
    /\ pc' = "save_begin"
    /\ UNCHANGED <<caller, store, conn, in_tx, k, start_store, fail_step, error,
                   limit, existing_issues, seen_issue_numbers, issues_to_process,
                   params, next_url, page_no, page_left, has_next, i, result,
                   served, pr_served,
                   ok_requests, fetch_calls>>
    /\ UNCHANGED retry_vars
    /\ UNCHANGED env_vars
    /\ UNCHANGED main_vars
    /\ UNCHANGED limiter_vars

\* save_issue_with_comments returned: the progress line, the next round.
ProcessNext ==
    /\ pc = "process_next"
    /\ i' = i + 1
    /\ pc' = "process"
    /\ UNCHANGED <<save_vars, error, limit, existing_issues, seen_issue_numbers,
                   issues_to_process, params, next_url, page_no, page_left, has_next,
                   result, served, pr_served, ok_requests, fetch_calls, save_calls>>
    /\ UNCHANGED retry_vars
    /\ UNCHANGED env_vars
    /\ UNCHANGED main_vars
    /\ UNCHANGED limiter_vars

\* SELECT COUNT(*) FROM issues; conn.close(); return total_issues
Finish ==
    /\ pc = "process"
    /\ i = Len(issues_to_process)
    /\ result' = CountIssues(conn)
    /\ pc' = "done"
    /\ UNCHANGED <<save_vars, error, limit, existing_issues, seen_issue_numbers,
                   issues_to_process, params, next_url, page_no, page_left, has_next, i,
                   served, pr_served, ok_requests, fetch_calls, save_calls>>
    /\ UNCHANGED retry_vars
    /\ UNCHANGED env_vars
    /\ UNCHANGED main_vars
    /\ UNCHANGED limiter_vars

Next ==
    \/ Start
    \/ RetryWait
    \/ RetryAttemptReturns
    \/ \E kind \in TransportErrors : RetryAttemptFails(kind)
    \/ RetryExhausted
    \/ \E len \in 0..MaxPageLen, next \in BOOLEAN : ListResponse(len, next)
    \/ \E item \in RemoteItems : ListItem(item)
    \/ PageEnd
    \/ ProcessFetchComments
    \/ ProcessSave
    \/ ProcessNext
    \/ Finish
    \* save_issue_with_comments; its loop over comments has no round in a
    \* run, where comments is always [].
    \/ SaveBegin
    \/ SaveInsertIssue
    \/ SaveDeleteComments
    \/ SaveCommit
    \/ SaveFault
    \/ SaveRollback

Spec == InitRun /\ [][Next]_vars

\* download_issues runs in one thread whose every call returns: a request
\* ends with a response or a timeout, a sleep ends, a statement of the store
\* returns or raises.  A run therefore takes its next step as long as it
\* has one.
SpecLive == InitRun /\ [][Next]_vars /\ WF_vars(Next)

(* ----------------------------------------------------------- RateLimiter *)

\* int(requests_per_hour * RATE_LIMIT_USAGE_FRACTION): the product, truncated.
EffectiveLimit(rph) == (rph * RateNum) \div RateDen

\* Mutant of SleepFor: wait_if_needed never sleeps.
SleepFor_Never(wait_time) == 0

\* if wait_time > 0: time.sleep(wait_time)
SleepFor(wait_time) == IF wait_time > 0 THEN wait_time ELSE 0

\* time.sleep may return later than asked, never earlier.
Overshoots == {0, 1}

\* A RateLimiter is about to be constructed.
InitLimiter ==
    /\ pc = "construct"
    /\ caller = "unit"
    /\ store = EmptyStore
    /\ conn = store
    /\ start_store = store
    /\ in_tx = FALSE
    /\ issue = NoIssue
    /\ comments = <<>>
    /\ k = 0
    /\ error = "none"
    /\ fail_step = "none"
    /\ limit = 0
    /\ existing_issues = {}
    /\ seen_issue_numbers = {}
    /\ issues_to_process = <<>>
    /\ params = "initial"
    /\ next_url = "none"
    /\ page_no = 0
    /\ page_left = 0
    /\ has_next = FALSE
    /\ i = 0
    /\ result = -1
    /\ served = {}
    /\ pr_served = FALSE
    /\ ok_requests = 0
    /\ fetch_calls = {}
    /\ save_calls = {}
    /\ RetryAtRest
    /\ remote = <<>>
    /\ run = 1
    /\ first_run = NoRun
    /\ MainAtRest
    /\ requests_per_hour \in 1..MaxRate
    /\ min_interval = NoInterval
    /\ last_request_time = -1
    /\ now = 0
    /\ last_wait = NoWait

\* RateLimiter.__init__: the division raises ZeroDivisionError when the
\* effective limit is 0.
Construct ==
    /\ pc = "construct"
    /\ LET effective_limit == EffectiveLimit(requests_per_hour)
       IN IF effective_limit = 0
          THEN /\ error' = "ZeroDivisionError"
               /\ pc' = "raised"
               /\ UNCHANGED min_interval
          ELSE /\ min_interval' = [num |-> SecondsPerHour, den |-> effective_limit]
               /\ pc' = "limiter_ready"
               /\ UNCHANGED error
    /\ last_request_time' = -1
    /\ UNCHANGED <<save_vars, run_vars, retry_vars, env_vars, main_vars,
                   requests_per_hour, now, last_wait>>

\* RateLimiter.wait_if_needed.  min_interval is TicksPerInterval ticks.
WaitIfNeeded(over) ==
    /\ pc = "limiter_ready"
    /\ last_wait.n < MaxCalls
    /\ IF last_request_time = -1
       THEN /\ last_request_time' = now
            /\ now' = now
            /\ last_wait' = [n |-> last_wait.n + 1, at |-> now, prev |-> -1,
                             slept |-> 0]
       ELSE LET elapsed == now - last_request_time
                wait_time == TicksPerInterval - elapsed
                woke == now + SleepFor(wait_time) + over
            IN /\ now' = woke
               /\ last_request_time' = woke
               /\ last_wait' = [n |-> last_wait.n + 1, at |-> now,
                                prev |-> last_request_time,
                                slept |-> SleepFor(wait_time)]
    /\ UNCHANGED <<pc, save_vars, error, run_vars, retry_vars, env_vars,
                   main_vars, requests_per_hour, min_interval>>

\* Time passes between two calls of wait_if_needed.
TimePasses(d) ==
    /\ pc = "limiter_ready"
    /\ now + d <= MaxTime
    /\ now' = now + d
    /\ UNCHANGED <<pc, save_vars, error, run_vars, retry_vars, env_vars,
                   main_vars, requests_per_hour, min_interval,
                   last_request_time, last_wait>>

NextLimiter ==
    \/ Construct
    \/ \E over \in Overshoots : WaitIfNeeded(over)
    \/ \E d \in 1..MaxGap : TimePasses(d)

SpecLimiter == InitLimiter /\ [][NextLimiter]_vars

(* ------------------------------------------------------------------ main *)

\* The characters of a repository argument: "/" and one other character.
RepoChars == {"o", "/"}

RepoStrings == UNION {[1..n -> RepoChars] : n \in 0..MaxRepoLen}

\* repo_string.split("/"): the pieces between the separators, in order; a
\* string without separator gives one piece, the string itself.
RECURSIVE Split(_)
Split(str) ==
    IF str = <<>> THEN << <<>> >>
    ELSE LET rest == Split(Tail(str))
         IN IF Head(str) = "/"
            THEN << <<>> >> \o rest
            ELSE << <<Head(str)>> \o Head(rest) >> \o Tail(rest)

\* Mutant of WellFormed: more than two pieces pass.
WellFormed_AtLeast(p) == Len(p) >= 2

\* parse_repo_string raises ValueError if len(parts) != 2.
WellFormed(p) == Len(p) = 2

\* len(x) is defined for the sized values (lists, strings, ...), not for int.
HasLen(x) == x \notin Int

\* How a run stands: its download_issues has returned, has raised, or is
\* still under way.
RunOutcome ==
    IF pc \in {"done", "main_raised"} \/ (pc = "exited" /\ exit_code = 0)
    THEN "done"
    ELSE IF pc = "raised" \/ (pc = "exited" /\ exit_code = 1)
         THEN "raised"
         ELSE "killed"

\* owner, repo = parse_repo_string(args.repository); on ValueError main
\* prints the error and returns 1.
MainParse ==
    /\ pc = "main_start"
    /\ LET p == Split(repo_string)
       IN IF WellFormed(p)
          THEN /\ parts' = <<p[1], p[2]>>
               /\ pc' = "start"
               /\ UNCHANGED <<error, exit_code>>
          ELSE /\ error' = "ValueError"
               /\ exit_code' = 1
               /\ pc' = "exited"
               /\ UNCHANGED parts
    /\ UNCHANGED <<save_vars, run_vars, retry_vars, env_vars, repo_string, db_opened>>
    /\ UNCHANGED limiter_vars

\* download_issues returned: print(... {len(issues)} issues ...); return 0.
\* issues is the value download_issues returned.
MainReport ==
    /\ pc = "done"
    /\ caller = "main"
    /\ IF HasLen(result)
       THEN /\ exit_code' = 0
            /\ pc' = "exited"
            /\ UNCHANGED error
       ELSE /\ error' = "TypeError"
            /\ pc' = "main_raised"
            /\ UNCHANGED exit_code
    /\ UNCHANGED <<save_vars, run_vars, retry_vars, env_vars, repo_string, parts,
                   db_opened>>
    /\ UNCHANGED limiter_vars

\* except requests.exceptions.HTTPError / RequestException: print, return 1.
\* Any other exception leaves main.
MainCatch ==
    /\ pc = "raised"
    /\ caller = "main"
    /\ error \in TransportErrors
    /\ exit_code' = 1
    /\ pc' = "exited"
    /\ UNCHANGED <<save_vars, error, run_vars, retry_vars, env_vars, repo_string,
                   parts, db_opened>>
    /\ UNCHANGED limiter_vars

\* main is called with a repository argument and a limit, on a new database
\* file.
InitMain ==
    /\ pc = "main_start"
    /\ caller = "main"
    /\ store = EmptyStore
    /\ conn = store
    /\ start_store = store
    /\ in_tx = FALSE
    /\ issue = NoIssue
    /\ comments = <<>>
    /\ k = 0
    /\ error = "none"
    /\ fail_step = "none"
    /\ limit \in Limits
    /\ existing_issues = {}
    /\ seen_issue_numbers = {}
    /\ issues_to_process = <<>>
    /\ params = "initial"
    /\ next_url = "none"
    /\ page_no = 0
    /\ page_left = 0
    /\ has_next = FALSE
    /\ i = 0
    /\ result = -1
    /\ served = {}
    /\ pr_served = FALSE
    /\ ok_requests = 0
    /\ fetch_calls = {}
    /\ save_calls = {}
    /\ RetryAtRest
    /\ remote = <<>>
    /\ run = 1
    /\ first_run = NoRun
    /\ repo_string \in RepoStrings
    /\ parts = <<>>
    /\ db_opened = FALSE
    /\ exit_code = -1
    /\ LimiterAtRest

NextMain ==
    \/ MainParse
    \/ Start
    \/ RetryWait
    \/ RetryAttemptReturns
    \/ \E kind \in TransportErrors : RetryAttemptFails(kind)
    \/ RetryExhausted
    \/ \E len \in 0..MaxPageLen, next \in BOOLEAN : ListResponse(len, next)
    \/ \E item \in RemoteItems : ListItem(item)
    \/ PageEnd
    \/ ProcessFetchComments
    \/ ProcessSave
    \/ ProcessNext
    \/ Finish
    \/ SaveBegin
    \/ SaveInsertIssue
    \/ SaveDeleteComments
    \/ SaveCommit
    \/ SaveFault
    \/ SaveRollback
    \/ MainReport
    \/ MainCatch

SpecMain == InitMain /\ [][NextMain]_vars

(* ------------------------------------------- two runs on a fixed remote *)

\* A page of the listing, as response.json() returns it.
Pages == UNION {[1..n -> RemoteItems] : n \in 0..MaxPageLen}

\* The items of the pages of a listing, in the order of the listing.
RECURSIVE Flatten(_)
Flatten(pages) ==
    IF pages = <<>> THEN <<>> ELSE Head(pages) \o Flatten(Tail(pages))

\* The listings of a remote that has every number once: the page of the
\* first request and the pages its Link headers lead to.
Remotes ==
    {r \in UNION {[1..m -> Pages] : m \in 1..MaxPages} :
        \A a, b \in 1..Len(Flatten(r)) :
            Flatten(r)[a].number = Flatten(r)[b].number => a = b}

InitRemote ==
    /\ pc = "start"
    /\ caller = "main"
    /\ store \in StartStores
    /\ conn = store
    /\ start_store = store
    /\ in_tx = FALSE
    /\ issue = NoIssue
    /\ comments = <<>>
    /\ k = 0
    /\ error = "none"
    /\ fail_step = "none"
    /\ limit \in Limits
    /\ existing_issues = {}
    /\ seen_issue_numbers = {}
    /\ issues_to_process = <<>>
    /\ params = "initial"
    /\ next_url = "none"
    /\ page_no = 0
    /\ page_left = 0
    /\ has_next = FALSE
    /\ i = 0
    /\ result = -1
    /\ served = {}
    /\ pr_served = FALSE
    /\ ok_requests = 0
    /\ fetch_calls = {}
    /\ save_calls = {}
    /\ RetryAtRest
    /\ remote \in Remotes
    /\ run = 1
    /\ first_run = NoRun
    /\ MainAtRest
    /\ LimiterAtRest

\* The response to the request of the listing loop is the next page of the
\* remote; its Link header has rel="next" if a page follows.
RemoteResponse ==
    /\ pc = "list_response"
    /\ page_no < Len(remote)
    /\ ListResponse(Len(remote[page_no + 1]), page_no + 1 < Len(remote))

\* "for item in data" takes the items of the page in their order.
RemoteItem ==
    /\ pc = "list_items"
    /\ ListItem(remote[page_no][Len(remote[page_no]) - page_left + 1])

\* The program is started once more, with the same arguments, on the store
\* file the first run left: what the first run committed is in it, and
\* nothing else.  The first run has returned, has raised, or is terminated
\* from outside, wherever it is.
Rerun ==
    /\ run = 1
    /\ run' = 2
    /\ first_run' = [end |-> RunOutcome,
                     result |-> result,
                     start |-> start_store]
    /\ pc' = "start"
    /\ conn' = store
    /\ start_store' = store
    /\ in_tx' = FALSE
    /\ issue' = NoIssue
    /\ comments' = <<>>
    /\ k' = 0
    /\ error' = "none"
    /\ fail_step' = "none"
    /\ existing_issues' = {}
    /\ seen_issue_numbers' = {}
    /\ issues_to_process' = <<>>
    /\ params' = "initial"
    /\ next_url' = "none"
    /\ page_no' = 0
    /\ page_left' = 0
    /\ has_next' = FALSE
    /\ i' = 0
    /\ result' = -1
    /\ served' = {}
    /\ pr_served' = FALSE
    /\ ok_requests' = 0
    /\ fetch_calls' = {}
    /\ save_calls' = {}
    /\ RetryLocalsFresh
    /\ UNCHANGED <<caller, store, limit, remote>>
    /\ db_opened' = FALSE
    /\ exit_code' = -1
    /\ UNCHANGED <<repo_string, parts>>
    /\ UNCHANGED limiter_vars

NextRemote ==
    \/ Start
    \/ RetryWait
    \/ RetryAttemptReturns
    \/ \E kind \in TransportErrors : RetryAttemptFails(kind)
    \/ RetryExhausted
    \/ RemoteResponse
    \/ RemoteItem
    \/ PageEnd
    \/ ProcessFetchComments
    \/ ProcessSave
    \/ ProcessNext
    \/ Finish
    \/ SaveBegin
    \/ SaveInsertIssue
    \/ SaveDeleteComments
    \/ SaveCommit
    \/ SaveFault
    \/ SaveRollback
    \/ MainReport
    \/ MainCatch
    \/ Rerun

SpecRemote == InitRemote /\ [][NextRemote]_vars

(* ---------------------------------------------------------------- claims *)

\* The numbers of the accepted items.
ToProcessNumbers == {issues_to_process[j].number : j \in 1..Len(issues_to_process)}

\* The run has left the listing loop without an error of the transport.
ListingOver ==
    /\ pc \notin {"main_start", "start", "list_request", "list_get",
                  "list_response", "list_items", "page_end"}
    /\ error \notin TransportErrors \cup {"ValueError"}

\* The run has ended, by a return or by an exception.
RunEnded == pc \in {"done", "raised"}

\* C1: a run on an empty store, without limit, in which no request and no
\* statement of the store fails, ends with one issue row per issue the
\* listing served and, for every issue that declares comments, as many
\* comment rows as it declares.
C1_FreshRunStoresAll ==
    (/\ RunEnded
     /\ start_store = EmptyStore
     /\ limit = 0
     /\ error \notin TransportErrors
     /\ fail_step = "none")
    => /\ ExistingIssueNumbers(store) = served
       /\ Cardinality(store.issues) = Cardinality(served)
       /\ \A j \in 1..Len(issues_to_process) :
             Cardinality({c \in store.comments :
                 c.issue_number = issues_to_process[j].number})
               = issues_to_process[j].comments

\* C2: when a statement of save_issue_with_comments fails after BEGIN, the
\* call ends by raising the error, outside any transaction, and the store,
\* committed and as seen through the connection, is the store before the
\* call.
C2_FailedSaveLeavesStore ==
    (pc = "raised" /\ fail_step # "none")
    => /\ store = start_store
       /\ conn = start_store
       /\ ~in_tx
       /\ error \in {"IntegrityError", "OperationalError"}

\* A save of a new issue over stored comments of its number that failed
\* after some, but not all, of its comments were inserted.
C2_Witness ==
    /\ pc = "raised"
    /\ fail_step = "save_insert_comment"
    /\ k >= 1
    /\ k < Len(comments)
    /\ IssueRow(issue) \notin start_store.issues
    /\ \E c \in start_store.comments : c.issue_number = issue.number

\* C3: for a number that is in the store when the run starts, the run never
\* calls fetch_comments and never calls save_issue_with_comments.
C3_StoredNumbersSkipped ==
    \A n \in ExistingIssueNumbers(start_store) :
        n \notin fetch_calls /\ n \notin save_calls

\* A finished run whose listing served a stored number and that saved
\* another one.
C3_Witness ==
    /\ pc = "done"
    /\ save_calls # {}
    /\ \E n \in ExistingIssueNumbers(start_store) : n \in served

\* C4: every issue row and every comment row that is in the store when the
\* run starts is in the store in every later state of the run.
C4_StartRowsKept ==
    /\ \A r \in start_store.issues : r \in store.issues
    /\ \A c \in start_store.comments : c \in store.comments

\* C6: a call of request_with_retry makes at most MAX_RETRIES requests; it
\* returns on the first request that succeeds, and after MAX_RETRIES failed
\* requests it raises the error of the last one.
C6_AtMostTenAttempts ==
    /\ gets <= MAX_RETRIES
    /\ pc \in {"list_request", "list_get"} => gets = attempt
    /\ pc = "list_response" => gets = attempt + 1 /\ attempt <= MAX_RETRIES - 1
    /\ (pc = "raised" /\ error \in TransportErrors)
           => /\ gets = MAX_RETRIES
              /\ attempt = MAX_RETRIES
              /\ error = tenth_error

\* A call that raised after MAX_RETRIES failed requests of both kinds.
C6_Witness ==
    /\ pc = "raised"
    /\ error \in TransportErrors
    /\ gets = MAX_RETRIES
    /\ kinds = TransportErrors

\* C7: within a call of request_with_retry the backoff sleep after the j-th
\* failed request is 2^(j-1) seconds for j = 1..MAX_RETRIES-1, and there is
\* none after the last one.
C7_BackoffDoubles ==
    /\ Len(sleeps) = (IF attempt < MAX_RETRIES THEN attempt ELSE MAX_RETRIES - 1)
    /\ \A j \in 1..Len(sleeps) : sleeps[j] = INITIAL_BACKOFF * 2^(j - 1)

\* A call whose MAX_RETRIES requests failed, with errors of both kinds.
C7_Witness ==
    /\ attempt = MAX_RETRIES
    /\ kinds = TransportErrors
    /\ Len(sleeps) = MAX_RETRIES - 1
    /\ sleeps[MAX_RETRIES - 1] = 256

\* The number of pages the listing loop reads without a limit: up to the
\* first empty page, or all of them.
PagesRead ==
    IF \E p \in 1..Len(remote) : remote[p] = <<>>
    THEN CHOOSE p \in 1..Len(remote) :
            remote[p] = <<>> /\ \A q \in 1..(p - 1) : remote[q] # <<>>
    ELSE Len(remote)

\* An item of the listing that is an issue whose number was not stored.
IsNewIssue(x) == NotPullRequest(x) /\ x.number \notin existing_issues

\* The listing loop without a limit makes one successful request per page
\* up to the first page that is empty or has no next link, and keeps the new
\* issues of these pages in their order.
ListingPaginates ==
    (limit = 0 /\ ListingOver)
    => /\ ok_requests = PagesRead
       /\ page_no = PagesRead
       /\ issues_to_process =
             SelectSeq(Flatten(SubSeq(remote, 1, PagesRead)), IsNewIssue)

\* C8: without a limit the listing loop and fetch_comments alike make one
\* successful request per page up to the first page that is empty or has no
\* next link and return the items of these pages in their order: the listing
\* loop does, and fetch_comments, once it is called, does not end in an
\* error of the program.
C8_PaginationAlike ==
    /\ ListingPaginates
    /\ fetch_calls # {} => error \notin {"TypeError", "NameError"}

\* C9: on an empty store and with limit L >= 1 the listing accepts at most L
\* issues, reads no further item and requests no further page once L are
\* accepted, and accepts every issue served when there are fewer than L.
C9_LimitStopsListing ==
    (start_store = EmptyStore /\ limit >= 1)
    => /\ Len(issues_to_process) <= limit
       /\ Len(issues_to_process) = limit
             => pc \notin {"list_request", "list_get", "list_response",
                           "list_items"}
       /\ (ListingOver /\ Len(issues_to_process) < limit)
             => ToProcessNumbers = served

\* The listing stopped in the middle of a page that has a next cursor.
C9_Witness ==
    /\ start_store = EmptyStore
    /\ limit >= 1
    /\ pc = "page_end"
    /\ Len(issues_to_process) = limit
    /\ page_left > 0
    /\ has_next

\* The items of the pages the listing loop can reach: the pages before the
\* first empty one.
OfferedItems ==
    UNION {{remote[p][j] : j \in 1..Len(remote[p])} :
           p \in {q \in 1..Len(remote) : \A o \in 1..q : remote[o] # <<>>}}

\* The numbers the listing offers to this run as new: issues that are no pull
\* requests and whose number is not in the store when the run starts.
OfferedNew ==
    {item.number : item \in {x \in OfferedItems :
        NotPullRequest(x) /\ x.number \notin ExistingIssueNumbers(start_store)}}

\* C5: when the program has run to its end and is run once more on the same
\* remote and the store the first run left, the second run, at its end, has
\* left the store as it found it.
C5_SecondRunKeepsStore ==
    (run = 2 /\ pc = "done" /\ first_run.end = "done") => store = start_store

\* C10: the limit counts the issues accepted by this run only: when the
\* listing offers at least limit new issues, the run leaves the listing loop
\* with exactly limit accepted issues, however many are in the store.
C10_LimitCountsNewOnly ==
    (limit >= 1 /\ ListingOver /\ Cardinality(OfferedNew) >= limit)
    => Len(issues_to_process) = limit

\* C11: an item of the listing that carries pull_request is never among the
\* issues to process, is never the argument of save_issue_with_comments and
\* never becomes a row of the store, on any page, with or without a limit.
C11_PullRequestsFiltered ==
    /\ \A j \in 1..Len(issues_to_process) : ~issues_to_process[j].pull_request
    /\ ~issue.pull_request
    /\ \A r \in (store.issues \cup conn.issues) \ start_store.issues :
          \E x \in RemoteItems : ~x.pull_request /\ r = IssueRow(x)

\* A run that returned after the listing served a pull request and after it
\* saved an issue.
C11_Witness ==
    /\ pc = "done"
    /\ pr_served
    /\ save_calls # {}
    /\ store # start_store


\* The comment rows the store holds for a number.
StoredComments(db, n) == {c \in db.comments : c.issue_number = n}

\* C12: in every committed state the comments stored for a number are the
\* whole list handed to the last save_issue_with_comments that committed
\* for it: a call that has not committed, or that failed, leaves every
\* stored comment in place, and a call that committed has replaced the
\* comments of its number by all the comments of its list and has left
\* those of the other numbers.
C12_CommentsWholeOrUntouched ==
    \/ store = start_store
    \/ /\ pc = "returned"
       /\ StoredComments(store, issue.number) =
             {CommentRow(comments[j], issue.number) : j \in 1..Len(comments)}
       /\ \A n \in Numbers \ {issue.number} :
             StoredComments(store, n) = StoredComments(start_store, n)

\* A call that committed a list of comments in place of a stored one.
C12_Witness ==
    /\ pc = "returned"
    /\ Len(comments) >= 1
    /\ \E c \in start_store.comments :
          c.issue_number = issue.number /\ c \notin store.comments


(* ------------------------------------- a run that nothing interrupts *)

\* "for item in data" on one page: the numbers seen and the items accepted
\* after it, and whether it ended by the break at the limit.
RECURSIVE AcceptPage(_, _, _, _)
AcceptPage(page, seen, acc, lim) ==
    IF page = <<>>
    THEN [seen |-> seen, acc |-> acc, stop |-> FALSE]
    ELSE LET item == Head(page)
             accept == NotPullRequest(item) /\ IsNew(item, seen)
             seen2 == IF accept THEN seen \cup {item.number} ELSE seen
             acc2 == IF accept THEN Append(acc, item) ELSE acc
         IN IF NotPullRequest(item) /\ LimitReached(lim, seen2)
            THEN [seen |-> seen2, acc |-> acc2, stop |-> TRUE]
            ELSE AcceptPage(Tail(page), seen2, acc2, lim)

\* "while next_url" on the pages of a listing whose requests all succeed:
\* the items accepted when the loop is left.
RECURSIVE AcceptPages(_, _, _, _)
AcceptPages(pages, seen, acc, lim) ==
    IF pages = <<>> \/ Head(pages) = <<>>
    THEN acc
    ELSE LET r == AcceptPage(Head(pages), seen, acc, lim)
         IN IF r.stop \/ LimitReached(lim, r.seen)
            THEN r.acc
            ELSE AcceptPages(Tail(pages), r.seen, r.acc, lim)

\* issues_to_process of a run of download_issues on this database file.
Accepted(db, pages, lim) ==
    AcceptPages(pages, SeenAtStart(ExistingIssueNumbers(db)), <<>>, lim)

\* The database after save_issue_with_comments(conn, issue, []) committed.
SavedWithoutComments(db, it) ==
    [issues |-> InsertOrReplaceIssue(db.issues, IssueRow(it)),
     comments |-> DeleteComments(db.comments, it.number)]

\* The processing loop over items none of which declares comments.
RECURSIVE SaveAll(_, _)
SaveAll(db, items) ==
    IF items = <<>> THEN db
    ELSE SaveAll(SavedWithoutComments(db, Head(items)), Tail(items))

\* The database a run leaves when no request and no statement fails and
\* nothing terminates it.
UninterruptedStore(db, pages, lim) == SaveAll(db, Accepted(db, pages, lim))

\* The run as a function and the run as a state machine agree.
RunIsUninterruptedStore ==
    (run = 1 /\ pc = "done")
    => /\ issues_to_process = Accepted(start_store, remote, limit)
       /\ store = UninterruptedStore(start_store, remote, limit)

\* C13: when the first run raised or was terminated and the second run, on
\* the store the first one left and on the same remote, returns, every row
\* the first run committed is in the store, the second run has called
\* neither fetch_comments nor save_issue_with_comments for a number the
\* first run left in the store, and the store is the one a single run that
\* nothing interrupts leaves.
C13_ResumedRunEqualsOneRun ==
    (run = 2 /\ pc = "done" /\ first_run.end \in {"raised", "killed"})
    => /\ \A r \in start_store.issues \ first_run.start.issues : r \in store.issues
       /\ \A n \in ExistingIssueNumbers(start_store) :
             n \notin fetch_calls /\ n \notin save_calls
       /\ store = UninterruptedStore(first_run.start, remote, limit)


\* main has come to its end: it returned or an exception left it.
MainEnded ==
    \/ pc \in {"exited", "main_raised"}
    \/ pc = "raised" /\ error \notin TransportErrors

\* C14: when the repository argument is well-formed and main ends without
\* any request and any statement of the store having failed for good, it
\* has returned 0.
C14_MainReturnsZero ==
    (/\ MainEnded
     /\ Len(Split(repo_string)) = 2
     /\ error \notin TransportErrors
     /\ fail_step = "none")
    => pc = "exited" /\ exit_code = 0


\* The number of "/" in a string.
SlashCount(str) == Cardinality({j \in 1..Len(str) : str[j] = "/"})

\* C15: parse_repo_string returns the text before and the text after the
\* "/" when the string has exactly one, and raises ValueError for every
\* other string; main then returns 1 and has made no request and has not
\* opened the database.
C15_ParseRepoString ==
    pc # "main_start"
    => IF SlashCount(repo_string) = 1
       THEN /\ Len(parts) = 2
            /\ parts[1] \o <<"/">> \o parts[2] = repo_string
            /\ error # "ValueError"
       ELSE /\ pc = "exited"
            /\ exit_code = 1
            /\ error = "ValueError"
            /\ parts = <<>>
            /\ gets = 0
            /\ ok_requests = 0
            /\ ~db_opened
            /\ store = start_store
            /\ conn = start_store

\* main has returned 1 for an argument with two "/".
C15_Witness ==
    /\ pc = "exited"
    /\ exit_code = 1
    /\ error = "ValueError"
    /\ SlashCount(repo_string) = 2


\* C16: when the first run returned, the store holds issues, among them
\* every issue of the remote, and the second run ends without one request
\* having succeeded,
\* the second run has called fetch_comments for no stored number and main
\* has reported, and returned 0 with, the total the first run counted.
C16_OfflineRerunReportsTotal ==
    (/\ run = 2
     /\ first_run.end = "done"
     /\ ExistingIssueNumbers(start_store) # {}
     /\ OfferedNew = {}
     /\ ok_requests = 0
     /\ MainEnded)
    => /\ \A n \in ExistingIssueNumbers(start_store) : n \notin fetch_calls
       /\ pc = "exited"
       /\ exit_code = 0
       /\ result = first_run.result


\* C17: within a call of request_with_retry every requests.get comes right
\* after one wait_if_needed of its own and every wait_if_needed is followed
\* by a requests.get: the two counts are equal except between a wait and
\* its request, and a run makes no request outside request_with_retry.
C17_WaitBeforeEachRequest ==
    /\ pc = "list_get" => waits = gets + 1
    /\ pc # "list_get" => waits = gets
    /\ pc = "list_get" => attempt < MAX_RETRIES

\* The wait of the last attempt of a call whose earlier requests failed.
C17_Witness ==
    /\ pc = "list_get"
    /\ page_no = 1
    /\ attempt = MAX_RETRIES - 1
    /\ waits = MAX_RETRIES
    /\ gets = MAX_RETRIES - 1


\* C18: the first wait_if_needed of a limiter does not sleep and records
\* the time of the call; every later one sleeps min_interval less the time
\* since the recorded one, or not at all when that much has passed, and
\* records a time that is min_interval or more after the one it found.
C18_CallsSpacedByInterval ==
    last_wait.n >= 1
    => /\ last_wait.prev = -1
          => /\ last_wait.n = 1
             /\ last_wait.slept = 0
             /\ last_request_time = last_wait.at
       /\ last_wait.prev # -1
          => /\ last_wait.n >= 2
             /\ last_wait.slept =
                   (IF TicksPerInterval - (last_wait.at - last_wait.prev) > 0
                    THEN TicksPerInterval - (last_wait.at - last_wait.prev)
                    ELSE 0)
             /\ last_request_time >= last_wait.at + last_wait.slept
             /\ last_request_time - last_wait.prev >= TicksPerInterval
       /\ now >= last_request_time

\* A later call that came one tick after the recorded one and slept for
\* the rest of the interval.
C18_Witness ==
    /\ last_wait.n >= 2
    /\ last_wait.at - last_wait.prev = 1
    /\ last_wait.slept = TicksPerInterval - 1
    /\ last_request_time - last_wait.prev = TicksPerInterval

\* C19: the constructor of RateLimiter raises nothing for a positive
\* requests_per_hour and sets min_interval to 3600 / (requests_per_hour *
\* 0.9), that is min_interval * requests_per_hour * 9 = 36000.
C19_MinIntervalExact ==
    pc # "construct"
    => /\ error = "none"
       /\ min_interval.num * requests_per_hour * 9 = 36000 * min_interval.den


\* C20: every request of the call of request_with_retry for the first page
\* of the listing, retries included, goes to the URL of the listing with
\* the initial query, and every request of a call for a later page goes to
\* the next URL of the page before with the empty query.  fetch_comments
\* sends no request.
C20_QueryOnlyOnFirstPage ==
    /\ queries \subseteq
          {IF page_no = 0 THEN <<"issues_url", "initial">> ELSE <<"next", "empty">>}
    /\ (gets > 0) = (queries # {})
    /\ pc = "list_get" => next_url # "none"

\* The last attempt of the request for the second page, after retries.
C20_Witness ==
    /\ pc = "list_get"
    /\ page_no = 1
    /\ attempt = MAX_RETRIES - 1
    /\ queries = {<<"next", "empty">>}


\* C21: the issues to process are taken one at a time in the order of the
\* listing; fetch_comments is called for exactly those that declare
\* comments, and then returns their comments instead of raising an error
\* of the program; the others are saved with an empty list of comments.
C21_ProcessedInOrder ==
    /\ \E m \in {i, i + 1} :
          /\ m <= Len(issues_to_process)
          /\ save_calls \cup fetch_calls =
                {issues_to_process[j].number : j \in 1..m}
    /\ \A j \in 1..Len(issues_to_process) :
          LET it == issues_to_process[j]
          IN /\ it.number \in fetch_calls => it.comments > 0
             /\ (it.number \in save_calls /\ it.comments = 0)
                   => it.number \notin fetch_calls
    /\ pc \in {"save_begin", "save_insert_issue", "save_delete_comments",
               "save_commit"}
          => (issue.comments = 0 => comments = <<>>)
    /\ fetch_calls # {} => error \notin {"TypeError", "NameError"}


\* C22: the value download_issues returns is the number of issue rows the
\* store holds when it returns, and it is the number of issue rows at the
\* start of the run plus the number of issues this run saved.
C22_ReturnsStoredCount ==
    pc = "done"
        => /\ result = CountIssues(store)
           /\ result = CountIssues(start_store) + Cardinality(save_calls)


\* C23: issues_to_process never holds the same issue number twice, whatever
\* the listing serves, and the issue about to be processed was not handed
\* to fetch_comments or to save_issue_with_comments before in the run.
C23_NoDuplicateToProcess ==
    /\ \A a, b \in 1..Len(issues_to_process) :
          issues_to_process[a].number = issues_to_process[b].number => a = b
    /\ (pc = "process" /\ i < Len(issues_to_process))
          => issues_to_process[i + 1].number \notin save_calls \cup fetch_calls

\* The second page of a listing has been read to its end, and both pages
\* served only one and the same new issue number, which was accepted once.
C23_Witness ==
    /\ pc = "page_end"
    /\ page_no = 2
    /\ page_left = 0
    /\ limit = 0
    /\ ~pr_served
    /\ existing_issues = {}
    /\ Cardinality(served) = 1
    /\ Len(issues_to_process) = 1


\* C24: when save_issue_with_comments has raised for an issue of a run, the
\* error leaves download_issues and main: no later issue was or will be
\* handed to fetch_comments or saved, no total is returned, main returns
\* no exit code, and the store holds no row of the failed issue, so that a
\* next run finds its number new.
C24_FailedSaveEndsRun ==
    (pc = "raised" /\ error = "OperationalError")
        => /\ i < Len(issues_to_process)
           /\ issue = issues_to_process[i + 1]
           /\ save_calls \cup fetch_calls
                 \subseteq {issues_to_process[j].number : j \in 1..(i + 1)}
           /\ ~ENABLED (ProcessFetchComments \/ ProcessSave \/ ProcessNext
                        \/ Finish \/ MainReport \/ MainCatch)
           /\ result = -1
           /\ exit_code = -1
           /\ store = conn
           /\ issue.number \notin ExistingIssueNumbers(store)
           /\ IsNew(issue, SeenAtStart(ExistingIssueNumbers(store)))

\* The save of the first of two issues to process has failed at COMMIT.
C24_Witness ==
    /\ pc = "raised"
    /\ error = "OperationalError"
    /\ fail_step = "save_commit"
    /\ i = 0
    /\ Len(issues_to_process) = 2


\* C25: every run of download_issues ends, and it ends in one of two ways
\* unless a statement of the store fails: it returns after the last issue
\* to process was saved, or it raises the error of the last attempt of a
\* request_with_retry that used up its attempts.
C25_RunEndsDoneOrExhausted ==
    <>(\/ fail_step # "none"
       \/ pc = "done" /\ i = Len(issues_to_process)
       \/ pc = "raised" /\ error \in TransportErrors /\ gets = MAX_RETRIES)

\* Every run ends: it does not stay in the listing loop, in the retry loop
\* or in the loop over the issues to process.
RunTerminates == <>RunEnded


\* C26: no issue is saved before the listing loop is over: as long as a
\* page of the listing is still to be requested or read, and when a request
\* of the listing has failed for good, the store is what it was at the start
\* of the run and save_issue_with_comments has not been called.
C26_NoSaveWhileListing ==
    (\/ pc \in {"list_request", "list_get", "list_response", "list_items",
                "page_end"}
     \/ pc = "raised" /\ error \in TransportErrors)
        => /\ store = start_store
           /\ conn = start_store
           /\ save_calls = {}

\* The request of the second page of the listing has failed for good after
\* the first page gave an issue to process.
C26_Witness ==
    /\ pc = "raised"
    /\ error \in TransportErrors
    /\ page_no = 1
    /\ ok_requests = 1
    /\ Len(issues_to_process) > 0

====
